---------------------------- MODULE Spec2Model ----------------------------
(***************************************************************************)
(* Model of synapse_user_restrictions: the rule engine and the three spam   *)
(* checker callbacks of UserRestrictionsModule (module.py) and the leave    *)
(* block, deactivation guard and config parser of RestrictionModule         *)
(* (config.py).                                                             *)
(*                                                                          *)
(* Strings whose content the code inspects (user ids, room ids, domains)    *)
(* are sequences of one-character strings, so that split, lower and         *)
(* startswith are computed.  Other strings are TLA+ strings.                *)
(***************************************************************************)
EXTENDS Integers, Sequences, FiniteSets, TLC

VARIABLES
    config,       \* UserRestrictionsModule._config (module.py:22)
    restriction,  \* RestrictionModule._restricted_rooms/_leave_error_message
    reqs          \* the requests in flight, one record per request slot

vars == <<config, restriction, reqs>>

---------------------------------------------------------------------------
(* Bounds *)

\* longest rule list of a configuration
MaxRules == 2
\* longest restricted_rooms list handed to parse_config
MaxRooms == 2
\* number of requests that may be in flight at once
MaxRequests == 2

---------------------------------------------------------------------------
(* Strings *)

UpperLetters == <<"A","B","C","D","E","F","G","H","I","J","K","L","M",
                  "N","O","P","Q","R","S","T","U","V","W","X","Y","Z">>
LowerLetters == <<"a","b","c","d","e","f","g","h","i","j","k","l","m",
                  "n","o","p","q","r","s","t","u","v","w","x","y","z">>

\* str.lower() on one character
LowerChar(c) ==
    IF \E i \in 1..Len(UpperLetters) : UpperLetters[i] = c
    THEN LowerLetters[CHOOSE i \in 1..Len(UpperLetters) : UpperLetters[i] = c]
    ELSE c

\* str.lower()
Lower(s) == [i \in 1..Len(s) |-> LowerChar(s[i])]

\* s.split(":", 1): the parts before and after the first ":", or the whole
\* string alone when it holds none
SplitOnce(s) ==
    IF \E i \in 1..Len(s) : s[i] = ":"
    THEN LET k == CHOOSE i \in 1..Len(s) :
                     s[i] = ":" /\ \A j \in 1..(i-1) : s[j] # ":"
         IN <<SubSeq(s, 1, k-1), SubSeq(s, k+1, Len(s))>>
    ELSE <<s>>

\* str.startswith
StartsWith(s, prefix) ==
    Len(s) >= Len(prefix) /\ SubSeq(s, 1, Len(prefix)) = prefix

---------------------------------------------------------------------------
(* Outcomes of a call *)

Return(v) == [kind |-> "return", value |-> v, error |-> "none"]
\* value is meaningless on a raise
Raise(e) == [kind |-> "raise", value |-> FALSE, error |-> e]

---------------------------------------------------------------------------
(* Identities *)

UserA == <<"@","a",":","x">>
UserB == <<"@","b",":","X">>
UserC == <<"@","c",":","z">>
UserD == <<"@","d",":","x",":","8">>
Users == {UserA, UserB, UserC, UserD}

RoomR == <<"!","r">>
RoomS == <<"!","s">>
RoomT == <<"!","t">>

---------------------------------------------------------------------------
(* Permission catalog *)

CREATE_ROOM == "create_room"
INVITE == "invite"
RECEIVE_INVITES == "receive_invites"
RECEIVE_ALL_INVITES == "receive_all_invites"
INVITE_ALL == "invite_all"
JOIN_ROOM == "join_room"

ALL_UNDERSTOOD_PERMISSIONS ==
    {CREATE_ROOM, INVITE, RECEIVE_INVITES, RECEIVE_ALL_INVITES, INVITE_ALL,
     JOIN_ROOM}

\* permission identifiers outside the catalog
UnknownPermissions == {"kick", "Invite"}

---------------------------------------------------------------------------
(* Rules *)

Allow == "Allow"
Deny == "Deny"
NoDecision == "NoDecision"

\* _get_domain without the lowercasing
get_domain_as_written(user_id) ==
    LET parts == SplitOnce(user_id)
    IN IF Len(parts) < 2 THEN [kind |-> "raise", domain |-> <<>>]
       ELSE [kind |-> "return", domain |-> parts[2]]

\* UserRestrictionsModule._get_domain
get_domain(user_id) ==
    LET parts == SplitOnce(user_id)
    IN IF Len(parts) < 2 THEN [kind |-> "raise", domain |-> <<>>]
       ELSE [kind |-> "return", domain |-> Lower(parts[2])]

\* whether a rule's matcher selects the user
RuleMatches(rule, user_id) ==
    CASE rule.match = "wildcard" -> TRUE
      [] rule.match = "user" -> user_id = rule.arg
      [] rule.match = "domain" ->
            LET d == get_domain(user_id)
            IN d.kind = "return" /\ d.domain = rule.arg

\* Rule.apply
RuleApply(rule, user_id, permission) ==
    IF RuleMatches(rule, user_id) /\ permission \in rule.perms
    THEN rule.effect
    ELSE NoDecision

DenyAll ==
    [match |-> "wildcard", arg |-> <<>>, effect |-> Deny,
     perms |-> ALL_UNDERSTOOD_PERMISSIONS]
AllowAll ==
    [match |-> "wildcard", arg |-> <<>>, effect |-> Allow,
     perms |-> ALL_UNDERSTOOD_PERMISSIONS]
AllowUserA ==
    [match |-> "user", arg |-> UserA, effect |-> Allow,
     perms |-> ALL_UNDERSTOOD_PERMISSIONS]
DenyDomainX ==
    [match |-> "domain", arg |-> <<"x">>, effect |-> Deny,
     perms |-> {INVITE_ALL, RECEIVE_ALL_INVITES, JOIN_ROOM}]
AllowDomainZ ==
    [match |-> "domain", arg |-> <<"z">>, effect |-> Allow,
     perms |-> {INVITE, RECEIVE_INVITES, JOIN_ROOM}]

RulePool == {DenyAll, AllowAll, AllowUserA, DenyDomainX, AllowDomainZ}

RECURSIVE SeqsUpTo(_, _)
\* the sequences over S of length at most n
SeqsUpTo(S, n) ==
    IF n = 0 THEN {<<>>}
    ELSE LET shorter == SeqsUpTo(S, n-1)
         IN shorter \cup {Append(q, x) : q \in shorter, x \in S}

RuleLists == SeqsUpTo(RulePool, MaxRules)

DefaultDenySets ==
    {{}, {JOIN_ROOM}, {INVITE}, {INVITE_ALL, RECEIVE_ALL_INVITES},
     {INVITE_ALL, RECEIVE_ALL_INVITES, RECEIVE_INVITES},
     ALL_UNDERSTOOD_PERMISSIONS}

HomeserverSets ==
    {{}, {<<"x">>}, {<<"X">>, <<"z">>}, {<<"x",":","8">>}}

\* UserRestrictionsModuleConfig values
Configs(ruleLists, denySets, homeservers) ==
    [rules : ruleLists, default_deny : denySets,
     local_homeservers : homeservers]

---------------------------------------------------------------------------
(* Rule engine *)

\* the result of _apply_rules with the number of rules it evaluated
Decided(v, n) ==
    [kind |-> "return", value |-> v, error |-> "none", evals |-> n]

RECURSIVE apply_rules_from_deny_ignored(_, _, _, _)
\* the loop without its Deny branch: a Deny does not stop the iteration
apply_rules_from_deny_ignored(cfg, user_id, permission, i) ==
    IF i > Len(cfg.rules)
    THEN IF permission \in cfg.default_deny
         THEN Decided(FALSE, i-1)
         ELSE Decided(TRUE, i-1)
    ELSE LET rule_result == RuleApply(cfg.rules[i], user_id, permission)
         IN IF rule_result = Allow THEN Decided(TRUE, i)
            ELSE apply_rules_from_deny_ignored(cfg, user_id, permission, i+1)

RECURSIVE apply_rules_from_default_allow(_, _, _, _)
\* the loop without the default_deny fallback
apply_rules_from_default_allow(cfg, user_id, permission, i) ==
    IF i > Len(cfg.rules)
    THEN Decided(TRUE, i-1)
    ELSE LET rule_result == RuleApply(cfg.rules[i], user_id, permission)
         IN IF rule_result = Allow THEN Decided(TRUE, i)
            ELSE IF rule_result = Deny THEN Decided(FALSE, i)
            ELSE apply_rules_from_default_allow(cfg, user_id, permission, i+1)

RECURSIVE apply_rules_from(_, _, _, _)
\* the loop of _apply_rules from rule i on, and the default_deny fallback
apply_rules_from(cfg, user_id, permission, i) ==
    IF i > Len(cfg.rules)
    THEN IF permission \in cfg.default_deny
         THEN Decided(FALSE, i-1)
         ELSE Decided(TRUE, i-1)
    ELSE LET rule_result == RuleApply(cfg.rules[i], user_id, permission)
         IN IF rule_result = Allow THEN Decided(TRUE, i)
            ELSE IF rule_result = Deny THEN Decided(FALSE, i)
            ELSE apply_rules_from(cfg, user_id, permission, i+1)

\* _apply_rules without the check of the permission
apply_rules_unvalidated(cfg, user_id, permission) ==
    apply_rules_from(cfg, user_id, permission, 1)

\* UserRestrictionsModule._apply_rules
apply_rules(cfg, user_id, permission) ==
    IF permission \notin ALL_UNDERSTOOD_PERMISSIONS
    THEN [kind |-> "raise", value |-> FALSE, error |-> "ValueError",
          evals |-> 0]
    ELSE apply_rules_from(cfg, user_id, permission, 1)

\* an _apply_rules result as the outcome its caller sees
Outcome(r) == [kind |-> r.kind, value |-> r.value, error |-> r.error]

\* UserRestrictionsModule.callback_user_may_create_room
callback_user_may_create_room(cfg, user) ==
    Outcome(apply_rules(cfg, user, CREATE_ROOM))

---------------------------------------------------------------------------
(* Invite authorizer *)

\* UserRestrictionsModule.callback_user_may_invite
callback_user_may_invite(cfg, inviter, invitee, room_id) ==
    LET r1 == apply_rules(cfg, inviter, INVITE) IN
    IF r1.kind = "raise" THEN Outcome(r1)
    ELSE IF ~r1.value THEN Return(FALSE)
    ELSE
    LET r2 == apply_rules(cfg, inviter, INVITE_ALL) IN
    IF r2.kind = "raise" THEN Outcome(r2)
    ELSE IF r2.value THEN Return(TRUE)
    ELSE
    LET r3 == apply_rules(cfg, invitee, RECEIVE_ALL_INVITES) IN
    IF r3.kind = "raise" THEN Outcome(r3)
    ELSE IF r3.value THEN Return(TRUE)
    ELSE
    LET r4 == apply_rules(cfg, invitee, RECEIVE_INVITES) IN
    IF r4.kind = "raise" THEN Outcome(r4)
    ELSE IF r4.value
         THEN LET inviter_domain == get_domain(inviter)
              IN IF inviter_domain.kind = "raise" THEN Raise("IndexError")
                 ELSE Return(inviter_domain.domain \in cfg.local_homeservers)
         ELSE Return(FALSE)

---------------------------------------------------------------------------
(* Room-join authorizer *)

\* A member event of the room state: the keys its dict holds and the
\* membership of its content ("absent": content has no membership key)
MemberEvents ==
    {[fields |-> {}, membership |-> "absent"],
     [fields |-> {"type"}, membership |-> "absent"]}
    \cup [fields : {{"type", "content"}},
          membership : {"absent", "join", "leave"}]

\* the users whose member events the room state may hold
StateUsers == {UserA, UserB}

\* the key of a user's member event in a state map
MemberKey(user) == <<"m.room.member", user>>

\* the state maps get_room_state may return
StateMaps ==
    UNION {[{MemberKey(u) : u \in K} -> MemberEvents] : K \in SUBSET StateUsers}

\* what awaiting get_room_state yields: a state map, or an exception
LookupOutcomes ==
    {[kind |-> "raise", state |-> <<>>]}
    \cup [kind : {"return"}, state : StateMaps]

\* dict.get: the values under the key, none when the key is missing
DictGet(d, key) == {d[k] : k \in DOMAIN d \cap {key}}

\* the try block reading membership from the event instead of its content:
\* the event has no such key, so the user is never seen as joined
join_state_check_top_level(user, lookup) ==
    IF lookup.kind = "raise" THEN "except" ELSE "fallthrough"

\* the try block of callback_user_may_join_room: "joined" when it returns
\* True, "fallthrough" when it ends without returning, "except" when an
\* exception of the lookup or of the subscripting is caught
join_state_check(user, lookup) ==
    IF lookup.kind = "raise" THEN "except"
    ELSE LET hits == DictGet(lookup.state, MemberKey(user))
         IN IF hits = {} THEN "fallthrough"
            ELSE LET member_event == CHOOSE e \in hits : TRUE
                 IN IF member_event.fields = {} THEN "fallthrough"
                    ELSE IF "content" \notin member_event.fields THEN "except"
                    ELSE IF member_event.membership = "join" THEN "joined"
                    ELSE "fallthrough"

\* the callback without its except clause: a failed lookup propagates
join_room_uncaught(cfg, user, room_id, is_invited, lookup) ==
    IF join_state_check(user, lookup) = "joined" THEN Return(TRUE)
    ELSE IF join_state_check(user, lookup) = "except" THEN Raise("Exception")
    ELSE LET has_join_room == apply_rules(cfg, user, JOIN_ROOM)
         IN IF has_join_room.kind = "raise" THEN Outcome(has_join_room)
            ELSE IF has_join_room.value \/ is_invited THEN Return(TRUE)
            ELSE Return(FALSE)

\* UserRestrictionsModule.callback_user_may_join_room, resumed with the
\* outcome of its state lookup
callback_user_may_join_room(cfg, user, room_id, is_invited, lookup) ==
    IF join_state_check(user, lookup) = "joined" THEN Return(TRUE)
    ELSE LET has_join_room == apply_rules(cfg, user, JOIN_ROOM)
         IN IF has_join_room.kind = "raise" THEN Outcome(has_join_room)
            ELSE IF has_join_room.value \/ is_invited THEN Return(TRUE)
            ELSE Return(FALSE)

---------------------------------------------------------------------------
(* Restriction gate *)

DefaultLeaveMessage == "You are not allowed to leave this room."

\* the event is returned
Pass(event) ==
    [kind |-> "return", returned |-> {event}, code |-> 0, msg |-> "",
     errcode |-> "none"]

\* SynapseError(code, msg, errcode)
SynapseError(code, msg, errcode) ==
    [kind |-> "raise", returned |-> {}, code |-> code, msg |-> msg,
     errcode |-> errcode]

\* check_event_allowed without the comparison of sender and state_key
check_event_allowed_any_target(self, event, mine) ==
    IF event.type # "m.room.member" THEN Pass(event)
    ELSE IF event.membership # "leave" THEN Pass(event)
    ELSE IF event.room_id \notin self.restricted_rooms THEN Pass(event)
    ELSE IF mine
         THEN SynapseError(403, self.leave_error_message, "M_FORBIDDEN")
         ELSE Pass(event)

\* RestrictionModule.check_event_allowed; mine is the host's answer to
\* is_mine(event.sender)
check_event_allowed(self, event, mine) ==
    IF event.type # "m.room.member" THEN Pass(event)
    ELSE IF event.membership # "leave" THEN Pass(event)
    ELSE IF event.room_id \notin self.restricted_rooms THEN Pass(event)
    ELSE IF event.sender = event.state_key /\ mine
         THEN SynapseError(403, self.leave_error_message, "M_FORBIDDEN")
         ELSE Pass(event)

\* the guard that lets every deactivation through
check_can_deactivate_user_always(self, user_id, by_admin) == Return(TRUE)

\* RestrictionModule.check_can_deactivate_user
check_can_deactivate_user(self, user_id, by_admin) == Return(by_admin)

\* the events handed to check_event_allowed
Events(types, memberships, rooms, users) ==
    [type : types, membership : memberships, room_id : rooms,
     sender : users, state_key : users]

---------------------------------------------------------------------------
(* Restriction gate configuration *)

\* the entries a raw restricted_rooms list may hold
RawEntries ==
    [type : {"str"}, str : {RoomR, RoomS, <<"#","r">>, <<>>}]
    \cup {[type |-> "int", str |-> <<>>]}

\* the raw values of the restricted_rooms key; "absent": the key is missing
RawRooms ==
    {[type |-> t, items |-> <<>>] : t \in {"absent", "none", "str"}}
    \cup [type : {"list"}, items : SeqsUpTo(RawEntries, MaxRooms)]

\* the raw values of the leave_error_message key
RawMessages ==
    {[type |-> t, text |-> ""] : t \in {"absent", "none", "int"}}
    \cup [type : {"str"}, text : {"", "Stay."}]

RawConfigs == [restricted_rooms : RawRooms, leave_error_message : RawMessages]

ConfigError(msg) ==
    [kind |-> "raise", returned |-> {}, error |-> "ConfigError", msg |-> msg]

\* set(restricted_rooms)
SetOfRooms(items) == {items[i].str : i \in 1..Len(items)}

\* parse_config without the check of the entries' "!" prefix
parse_config_any_string(raw) ==
    LET restricted_rooms ==
            IF raw.restricted_rooms.type = "absent"
            THEN [type |-> "list", items |-> <<>>]
            ELSE raw.restricted_rooms
        leave_error_message ==
            IF raw.leave_error_message.type = "absent"
            THEN [type |-> "str", text |-> DefaultLeaveMessage]
            ELSE raw.leave_error_message
    IN IF restricted_rooms.type # "list"
       THEN ConfigError("restricted_rooms must be a list of strings")
       ELSE IF \E i \in 1..Len(restricted_rooms.items) :
                  restricted_rooms.items[i].type # "str"
       THEN ConfigError("Each entry in restricted_rooms must be a valid room ID starting with '!'")
       ELSE IF leave_error_message.type # "str"
       THEN ConfigError("leave_error_message must be a string")
       ELSE [kind |-> "return",
             returned |->
                {[restricted_rooms |-> SetOfRooms(restricted_rooms.items),
                  leave_error_message |-> leave_error_message.text]},
             error |-> "none", msg |-> ""]

\* RestrictionModule.parse_config
parse_config(raw) ==
    LET restricted_rooms ==
            IF raw.restricted_rooms.type = "absent"
            THEN [type |-> "list", items |-> <<>>]
            ELSE raw.restricted_rooms
        leave_error_message ==
            IF raw.leave_error_message.type = "absent"
            THEN [type |-> "str", text |-> DefaultLeaveMessage]
            ELSE raw.leave_error_message
    IN IF restricted_rooms.type # "list"
       THEN ConfigError("restricted_rooms must be a list of strings")
       ELSE IF \E i \in 1..Len(restricted_rooms.items) :
                  LET room == restricted_rooms.items[i]
                  IN room.type # "str" \/ ~StartsWith(room.str, <<"!">>)
       THEN ConfigError("Each entry in restricted_rooms must be a valid room ID starting with '!'")
       ELSE IF leave_error_message.type # "str"
       THEN ConfigError("leave_error_message must be a string")
       ELSE [kind |-> "return",
             returned |->
                {[restricted_rooms |-> SetOfRooms(restricted_rooms.items),
                  leave_error_message |-> leave_error_message.text]},
             error |-> "none", msg |-> ""]

\* the fields of a RestrictionModule before __init__ has run
Unconstructed ==
    [restricted_rooms |-> {}, leave_error_message |-> "<unconstructed>"]

\* the configurations parse_config can return
Restrictions ==
    [restricted_rooms : SUBSET {RoomR, RoomS},
     leave_error_message : {DefaultLeaveMessage, "Stay."}]

---------------------------------------------------------------------------
(* Requests *)

Idle == [op |-> "idle", pc |-> "idle"]

Done(r) == r.pc = "done"

\* a direct call of _apply_rules
ApplyRulesCall(s, user_id, permission) ==
    /\ reqs[s].pc = "idle"
    /\ reqs' = [reqs EXCEPT ![s] =
                  [op |-> "apply_rules", pc |-> "done",
                   user |-> user_id, permission |-> permission,
                   out |-> apply_rules(config, user_id, permission)]]
    /\ UNCHANGED <<config, restriction>>

\* the host calls user_may_create_room
CreateRoomCall(s, user) ==
    /\ reqs[s].pc = "idle"
    /\ reqs' = [reqs EXCEPT ![s] =
                  [op |-> "user_may_create_room", pc |-> "done",
                   user |-> user,
                   out |-> callback_user_may_create_room(config, user)]]
    /\ UNCHANGED <<config, restriction>>

\* user_may_invite that remembers the domain of an inviter it let through
InviteCallLearning(s, inviter, invitee, room_id) ==
    /\ reqs[s].pc = "idle"
    /\ reqs' = [reqs EXCEPT ![s] =
                  [op |-> "user_may_invite", pc |-> "done",
                   inviter |-> inviter, invitee |-> invitee,
                   room_id |-> room_id,
                   out |-> callback_user_may_invite(config, inviter, invitee,
                                                    room_id)]]
    /\ config' =
          IF callback_user_may_invite(config, inviter, invitee, room_id).value
          THEN [config EXCEPT !.local_homeservers =
                                  @ \cup {get_domain(inviter).domain}]
          ELSE config
    /\ UNCHANGED restriction

\* the host calls user_may_invite
InviteCall(s, inviter, invitee, room_id) ==
    /\ reqs[s].pc = "idle"
    /\ reqs' = [reqs EXCEPT ![s] =
                  [op |-> "user_may_invite", pc |-> "done",
                   inviter |-> inviter, invitee |-> invitee,
                   room_id |-> room_id,
                   out |-> callback_user_may_invite(config, inviter, invitee,
                                                    room_id)]]
    /\ UNCHANGED <<config, restriction>>

\* the host calls user_may_join_room: the callback runs up to its await of
\* get_room_state and is suspended there
JoinCall(s, user, room_id, is_invited) ==
    /\ reqs[s].pc = "idle"
    /\ reqs' = [reqs EXCEPT ![s] =
                  [op |-> "user_may_join_room", pc |-> "await",
                   user |-> user, room_id |-> room_id,
                   is_invited |-> is_invited]]
    /\ UNCHANGED <<config, restriction>>

\* get_room_state completes and the suspended callback runs to its end
JoinResume(s, lookup) ==
    /\ reqs[s].pc = "await"
    /\ reqs' = [reqs EXCEPT ![s] =
                  [op |-> "user_may_join_room", pc |-> "done",
                   user |-> reqs[s].user, room_id |-> reqs[s].room_id,
                   is_invited |-> reqs[s].is_invited, lookup |-> lookup,
                   out |-> callback_user_may_join_room(
                              config, reqs[s].user, reqs[s].room_id,
                              reqs[s].is_invited, lookup)]]
    /\ UNCHANGED <<config, restriction>>

\* the host calls check_event_allowed
EventCall(s, event, mine) ==
    /\ reqs[s].pc = "idle"
    /\ reqs' = [reqs EXCEPT ![s] =
                  [op |-> "check_event_allowed", pc |-> "done",
                   event |-> event, mine |-> mine,
                   out |-> check_event_allowed(restriction, event, mine)]]
    /\ UNCHANGED <<config, restriction>>

\* the host calls check_can_deactivate_user
DeactivateCall(s, user_id, by_admin) ==
    /\ reqs[s].pc = "idle"
    /\ reqs' = [reqs EXCEPT ![s] =
                  [op |-> "check_can_deactivate_user", pc |-> "done",
                   user_id |-> user_id, by_admin |-> by_admin,
                   out |-> check_can_deactivate_user(restriction, user_id,
                                                     by_admin)]]
    /\ UNCHANGED <<config, restriction>>

\* the host calls the static parse_config on a raw configuration
ParseCall(s, raw) ==
    /\ reqs[s].pc = "idle"
    /\ restriction = Unconstructed
    /\ reqs' = [reqs EXCEPT ![s] =
                  [op |-> "parse_config", pc |-> "done", raw |-> raw,
                   out |-> parse_config(raw)]]
    /\ UNCHANGED <<config, restriction>>

\* RestrictionModule.__init__ on the configuration parse_config returned
Construct(s) ==
    /\ reqs[s].pc = "done"
    /\ reqs[s].op = "parse_config"
    /\ reqs[s].out.kind = "return"
    /\ \E c \in reqs[s].out.returned :
          restriction' =
             [restricted_rooms |-> c.restricted_rooms,
              leave_error_message |-> c.leave_error_message]
    /\ reqs' = [reqs EXCEPT ![s] = Idle]
    /\ UNCHANGED config

\* the host takes the verdict of a finished request
Respond(s) ==
    /\ reqs[s].pc = "done"
    /\ reqs' = [reqs EXCEPT ![s] = Idle]
    /\ UNCHANGED <<config, restriction>>

NoRestriction ==
    [restricted_rooms |-> {}, leave_error_message |-> DefaultLeaveMessage]

NoRules == [rules |-> <<>>, default_deny |-> {}, local_homeservers |-> {}]

---------------------------------------------------------------------------
(* The rule engine alone: one caller *)

InitRules ==
    /\ config \in Configs(RuleLists, DefaultDenySets, {{}})
    /\ restriction = NoRestriction
    /\ reqs = [s \in {1} |-> Idle]

NextRules ==
    \/ \E u \in Users, p \in ALL_UNDERSTOOD_PERMISSIONS \cup UnknownPermissions :
          ApplyRulesCall(1, u, p)
    \/ \E u \in Users : CreateRoomCall(1, u)
    \/ Respond(1)

SpecRules == InitRules /\ [][NextRules]_vars

---------------------------------------------------------------------------
(* Invites: one caller *)

InitInvite ==
    /\ config \in Configs(RuleLists, DefaultDenySets, HomeserverSets)
    /\ restriction = NoRestriction
    /\ reqs = [s \in {1} |-> Idle]

NextInvite ==
    \/ \E inviter \in Users, invitee \in Users, room_id \in {RoomR, RoomS} :
          InviteCall(1, inviter, invitee, room_id)
    \/ Respond(1)

SpecInvite == InitInvite /\ [][NextInvite]_vars

---------------------------------------------------------------------------
(* Joins: one caller *)

JoinDenySets == {{}, {JOIN_ROOM}, ALL_UNDERSTOOD_PERMISSIONS}

InitJoin ==
    /\ config \in Configs(RuleLists, JoinDenySets, {{}})
    /\ restriction = NoRestriction
    /\ reqs = [s \in {1} |-> Idle]

NextJoin ==
    \/ \E user \in {UserA, UserB, UserC}, room_id \in {RoomR},
          is_invited \in BOOLEAN :
          JoinCall(1, user, room_id, is_invited)
    \/ \E lookup \in LookupOutcomes : JoinResume(1, lookup)
    \/ Respond(1)

SpecJoin == InitJoin /\ [][NextJoin]_vars

---------------------------------------------------------------------------
(* Restriction gate: one caller *)

GateEvents ==
    Events({"m.room.member", "m.room.message"},
           {"leave", "join", "ban", "absent"},
           {RoomR, RoomS, RoomT}, {UserA, UserB, UserC})

InitGate ==
    /\ config = NoRules
    /\ restriction \in Restrictions
    /\ reqs = [s \in {1} |-> Idle]

NextGate ==
    \/ \E event \in GateEvents, mine \in BOOLEAN : EventCall(1, event, mine)
    \/ \E user_id \in Users, by_admin \in BOOLEAN :
          DeactivateCall(1, user_id, by_admin)
    \/ Respond(1)

SpecGate == InitGate /\ [][NextGate]_vars

---------------------------------------------------------------------------
(* Restriction gate configuration: parse, then construct *)

InitParse ==
    /\ config = NoRules
    /\ restriction = Unconstructed
    /\ reqs = [s \in {1} |-> Idle]

NextParse ==
    \/ \E raw \in RawConfigs : ParseCall(1, raw)
    \/ Construct(1)
    \/ Respond(1)

SpecParse == InitParse /\ [][NextParse]_vars

---------------------------------------------------------------------------
(* Concurrent requests against both modules *)

Slots == 1..MaxRequests

ConcRuleLists == {<<>>, <<DenyAll, AllowUserA>>, <<DenyDomainX>>}

ConcUsers == {UserA, UserC}

ConcLookups ==
    {[kind |-> "raise", state |-> <<>>],
     [kind |-> "return", state |-> <<>>],
     [kind |-> "return",
      state |-> [k \in {MemberKey(UserA)} |->
                   [fields |-> {"type", "content"}, membership |-> "join"]]]}

ConcEvents == Events({"m.room.member"}, {"leave"}, {RoomR}, ConcUsers)

Init ==
    /\ config \in Configs(ConcRuleLists, {{}, {JOIN_ROOM}}, {{<<"x">>}})
    /\ restriction \in
          [restricted_rooms : {{}, {RoomR}}, leave_error_message : {"Stay."}]
    /\ reqs = [s \in Slots |-> Idle]

Next ==
    \E s \in Slots :
       \/ \E u \in ConcUsers : CreateRoomCall(s, u)
       \/ \E inviter \in ConcUsers, invitee \in ConcUsers :
             InviteCall(s, inviter, invitee, RoomR)
       \/ \E user \in ConcUsers, is_invited \in BOOLEAN :
             JoinCall(s, user, RoomR, is_invited)
       \/ \E lookup \in ConcLookups : JoinResume(s, lookup)
       \/ \E event \in ConcEvents, mine \in BOOLEAN : EventCall(s, event, mine)
       \/ \E by_admin \in BOOLEAN : DeactivateCall(s, UserA, by_admin)
       \/ Respond(s)

Spec == Init /\ [][Next]_vars

---------------------------------------------------------------------------
(* Properties of the rule engine (SpecRules) *)

\* the finished direct calls of _apply_rules
ApplyRulesDone == {s \in DOMAIN reqs : reqs[s].op = "apply_rules"}

\* rule i is the first of the configured rules to decide for the request
FirstDecider(r, i) ==
    /\ RuleApply(config.rules[i], r.user, r.permission) # NoDecision
    /\ \A j \in 1..(i-1) :
          RuleApply(config.rules[j], r.user, r.permission) = NoDecision

\* C1: _apply_rules on a recognized permission returns the verdict of the
\* first rule, in configured order, that answers Allow (true) or Deny
\* (false); it evaluates no later rule and does not consult default_deny.
C1_FirstDecisionWins ==
    \A s \in ApplyRulesDone :
       LET r == reqs[s] IN
       r.permission \in ALL_UNDERSTOOD_PERMISSIONS =>
          \A i \in 1..Len(config.rules) :
             FirstDecider(r, i) =>
                /\ r.out.kind = "return"
                /\ r.out.value =
                      (RuleApply(config.rules[i], r.user, r.permission) = Allow)
                /\ r.out.evals = i

\* C1's case: rules [Deny-all, Allow-user(X)], and X is denied a permission
\* that default_deny does not list
C1_Witness ==
    \E s \in ApplyRulesDone :
       /\ config.rules = <<DenyAll, AllowUserA>>
       /\ reqs[s].user = UserA
       /\ reqs[s].permission = INVITE
       /\ INVITE \notin config.default_deny
       /\ reqs[s].out.kind = "return"
       /\ reqs[s].out.value = FALSE

\* C2: when no rule decides (the list is empty or every rule answers
\* NoDecision), _apply_rules on a recognized permission returns false iff
\* the permission is in default_deny, and true otherwise.
C2_DefaultDenyFallback ==
    \A s \in ApplyRulesDone :
       LET r == reqs[s] IN
       (/\ r.permission \in ALL_UNDERSTOOD_PERMISSIONS
        /\ \A i \in 1..Len(config.rules) :
              RuleApply(config.rules[i], r.user, r.permission) = NoDecision)
       => /\ r.out.kind = "return"
          /\ r.out.value = (r.permission \notin config.default_deny)

\* C2's case: a non-empty list of which no rule decides, and the permission
\* is denied by default
C2_Witness ==
    \E s \in ApplyRulesDone :
       /\ Len(config.rules) = MaxRules
       /\ \A i \in 1..Len(config.rules) :
             RuleApply(config.rules[i], reqs[s].user, reqs[s].permission)
                = NoDecision
       /\ reqs[s].permission \in config.default_deny
       /\ config.default_deny # ALL_UNDERSTOOD_PERMISSIONS
       /\ reqs[s].out.kind = "return"
       /\ reqs[s].out.value = FALSE

\* C7: on a permission outside the catalog _apply_rules raises the
\* unrecognized-permission error, having evaluated no rule and without a
\* verdict, whatever the rules and default_deny are.
C7_UnknownPermissionRaises ==
    \A s \in ApplyRulesDone :
       LET r == reqs[s] IN
       r.permission \notin ALL_UNDERSTOOD_PERMISSIONS =>
          /\ r.out.kind = "raise"
          /\ r.out.error = "ValueError"
          /\ r.out.evals = 0

\* C7's case: an unknown permission against a list that opens with a
\* wildcard Allow
C7_Witness ==
    \E s \in ApplyRulesDone :
       /\ Len(config.rules) >= 1
       /\ config.rules[1] = AllowAll
       /\ reqs[s].permission = "kick"
       /\ reqs[s].out.kind = "raise"

---------------------------------------------------------------------------
(* Properties of the invite authorizer (SpecInvite) *)

InviteDone == {s \in DOMAIN reqs : reqs[s].op = "user_may_invite"}

\* _apply_rules grants the permission to the user
Has(user, permission) ==
    LET r == apply_rules(config, user, permission)
    IN r.kind = "return" /\ r.value

\* the lowercased substring of a user id after its first ":"
DomainAfterFirstColon(user_id) ==
    LET k == CHOOSE i \in 1..Len(user_id) :
                user_id[i] = ":" /\ \A j \in 1..(i-1) : user_id[j] # ":"
    IN Lower(SubSeq(user_id, k+1, Len(user_id)))

\* the decision tree of the invite authorizer
InviteTree(inviter, invitee) ==
    IF ~Has(inviter, INVITE) THEN FALSE
    ELSE IF Has(inviter, INVITE_ALL) THEN TRUE
    ELSE IF Has(invitee, RECEIVE_ALL_INVITES) THEN TRUE
    ELSE IF Has(invitee, RECEIVE_INVITES)
         THEN DomainAfterFirstColon(inviter) \in config.local_homeservers
         ELSE FALSE

\* C3: callback_user_may_invite returns the value of the decision tree
\* (inviter lacks Invite: false; inviter has InviteAll: true; invitee has
\* ReceiveAllInvites: true; invitee has ReceiveInvites: whether the
\* inviter's lowercased domain is a local homeserver; else false), which
\* does not read room_id.
C3_InviteDecisionTree ==
    \A s \in InviteDone :
       LET r == reqs[s] IN
       /\ r.out = Return(InviteTree(r.inviter, r.invitee))
       /\ \A room_id \in {RoomR, RoomS, RoomT} :
             callback_user_may_invite(config, r.inviter, r.invitee, room_id)
                = r.out

\* C3's case: the tree's last test decides, for an inviter whose domain is
\* written in upper case
C3_Witness ==
    \E s \in InviteDone :
       LET r == reqs[s] IN
       /\ Has(r.inviter, INVITE)
       /\ ~Has(r.inviter, INVITE_ALL)
       /\ ~Has(r.invitee, RECEIVE_ALL_INVITES)
       /\ Has(r.invitee, RECEIVE_INVITES)
       /\ r.inviter = UserB
       /\ config.rules # <<>>
       /\ r.out.value = TRUE

---------------------------------------------------------------------------
(* Properties of the room-join authorizer (SpecJoin) *)

JoinDone ==
    {s \in DOMAIN reqs : reqs[s].op = "user_may_join_room" /\ Done(reqs[s])}

\* the lookup succeeded and its entry for the user has membership join
ShowsJoin(r) ==
    /\ r.lookup.kind = "return"
    /\ MemberKey(r.user) \in DOMAIN r.lookup.state
    /\ "content" \in r.lookup.state[MemberKey(r.user)].fields
    /\ r.lookup.state[MemberKey(r.user)].membership = "join"

\* C5: when the lookup succeeds and shows the user joined, the callback
\* returns true whatever is_invited and the rules are.
C5_JoinedUserAllowed ==
    \A s \in JoinDone : ShowsJoin(reqs[s]) => reqs[s].out = Return(TRUE)

\* C5's case: a joined user, not invited, whom the first rule denies
C5_Witness ==
    \E s \in JoinDone :
       /\ ShowsJoin(reqs[s])
       /\ ~reqs[s].is_invited
       /\ Len(config.rules) >= 1
       /\ config.rules[1] = DenyAll
       /\ JOIN_ROOM \in config.default_deny
       /\ reqs[s].out.value = TRUE

\* C6: when the lookup fails, or succeeds without showing the user joined,
\* the callback returns _apply_rules(user, JoinRoom) OR is_invited and
\* raises nothing.
C6_JoinFallback ==
    \A s \in JoinDone :
       LET r == reqs[s] IN
       ~ShowsJoin(r) =>
          r.out = Return(apply_rules(config, r.user, JOIN_ROOM).value
                         \/ r.is_invited)

\* C6's case: the lookup fails, a rule denies JoinRoom, the user is invited
C6_Witness ==
    \E s \in JoinDone :
       /\ reqs[s].lookup.kind = "raise"
       /\ reqs[s].is_invited
       /\ Len(config.rules) >= 1
       /\ config.rules[1] = DenyAll
       /\ reqs[s].out.kind = "return"
       /\ reqs[s].out.value = TRUE

---------------------------------------------------------------------------
(* Properties of the restriction gate (SpecGate) *)

EventDone == {s \in DOMAIN reqs : reqs[s].op = "check_event_allowed"}

\* a local user's own leave of a restricted room
BlockedLeave(r) ==
    /\ r.event.type = "m.room.member"
    /\ r.event.membership = "leave"
    /\ r.event.room_id \in restriction.restricted_rooms
    /\ r.event.sender = r.event.state_key
    /\ r.mine

\* C4: check_event_allowed raises 403 Forbidden with the configured
\* leave_error_message exactly for a local user's own leave of a restricted
\* room, and returns the event unchanged in every other case.
C4_LeaveBlock ==
    \A s \in EventDone :
       LET r == reqs[s] IN
       IF BlockedLeave(r)
       THEN /\ r.out.kind = "raise"
            /\ r.out.code = 403
            /\ r.out.errcode = "M_FORBIDDEN"
            /\ r.out.msg = restriction.leave_error_message
            /\ r.out.returned = {}
       ELSE /\ r.out.kind = "return"
            /\ r.out.returned = {r.event}

\* C4's case: a kick (sender differs from state_key) by a local user from a
\* restricted room passes
C4_Witness ==
    \E s \in EventDone :
       LET r == reqs[s] IN
       /\ r.event.type = "m.room.member"
       /\ r.event.membership = "leave"
       /\ r.event.room_id \in restriction.restricted_rooms
       /\ r.event.sender # r.event.state_key
       /\ r.mine
       /\ r.out.kind = "return"

DeactivateDone ==
    {s \in DOMAIN reqs : reqs[s].op = "check_can_deactivate_user"}

\* C9: check_can_deactivate_user returns by_admin, for every user and
\* every restricted_rooms configuration.
C9_DeactivationGuard ==
    \A s \in DeactivateDone : reqs[s].out = Return(reqs[s].by_admin)

\* C9's case: a self-deactivation is denied
C9_Witness ==
    \E s \in DeactivateDone :
       /\ ~reqs[s].by_admin
       /\ restriction.restricted_rooms # {}
       /\ reqs[s].out.value = FALSE

---------------------------------------------------------------------------
(* Properties of the gate's configuration parser (SpecParse) *)

ParseDone == {s \in DOMAIN reqs : reqs[s].op = "parse_config"}

\* the raw entry is a string that starts with "!"
IsRoomId(entry) ==
    entry.type = "str" /\ Len(entry.str) >= 1 /\ entry.str[1] = "!"

\* the raw configuration is one parse_config must refuse
Malformed(raw) ==
    \/ raw.restricted_rooms.type \notin {"list", "absent"}
    \/ \E i \in 1..Len(raw.restricted_rooms.items) :
          ~IsRoomId(raw.restricted_rooms.items[i])
    \/ raw.leave_error_message.type \notin {"str", "absent"}

\* C8: parse_config raises a configuration error, producing no value,
\* exactly when restricted_rooms is not a list, an entry of it is not a
\* string starting with "!", or leave_error_message is not a string;
\* otherwise it returns the set of the listed rooms and the given message,
\* or the default message when the field is absent.
C8_ParseConfig ==
    \A s \in ParseDone :
       LET raw == reqs[s].raw
           out == reqs[s].out
           rooms == raw.restricted_rooms.items
       IN IF Malformed(raw)
          THEN /\ out.kind = "raise"
               /\ out.error = "ConfigError"
               /\ out.returned = {}
          ELSE /\ out.kind = "return"
               /\ out.returned =
                    {[restricted_rooms |->
                         {rooms[i].str : i \in 1..Len(rooms)},
                      leave_error_message |->
                         IF raw.leave_error_message.type = "absent"
                         THEN "You are not allowed to leave this room."
                         ELSE raw.leave_error_message.text]}

\* C8's case: a list whose last entry is a string without the "!" prefix
C8_Witness ==
    \E s \in ParseDone :
       LET rooms == reqs[s].raw.restricted_rooms.items IN
       /\ reqs[s].raw.restricted_rooms.type = "list"
       /\ Len(rooms) = MaxRooms
       /\ \A i \in 1..(Len(rooms)-1) : IsRoomId(rooms[i])
       /\ rooms[Len(rooms)] = [type |-> "str", str |-> <<"#","r">>]
       /\ reqs[s].raw.leave_error_message.type = "str"
       /\ reqs[s].out.kind = "raise"

---------------------------------------------------------------------------
(* Properties of concurrent requests (Spec) *)

\* the outcome of a finished request when it runs alone
RunAlone(cfg, self, r) ==
    CASE r.op = "user_may_create_room" ->
            callback_user_may_create_room(cfg, r.user)
      [] r.op = "user_may_invite" ->
            callback_user_may_invite(cfg, r.inviter, r.invitee, r.room_id)
      [] r.op = "user_may_join_room" ->
            callback_user_may_join_room(cfg, r.user, r.room_id, r.is_invited,
                                        r.lookup)
      [] r.op = "check_event_allowed" ->
            check_event_allowed(self, r.event, r.mine)
      [] r.op = "check_can_deactivate_user" ->
            check_can_deactivate_user(self, r.user_id, r.by_admin)

\* C10: no step of any request changes the configuration of either module,
\* and after every step each finished request holds the outcome it yields
\* when run alone on its arguments, the configuration and (for a join) its
\* lookup outcome.
C10_RequestsIndependent ==
    [][/\ config' = config
       /\ restriction' = restriction
       /\ \A s \in Slots :
             Done(reqs'[s]) => reqs'[s].out = RunAlone(config', restriction',
                                                       reqs'[s])]_vars

\* C10's case: an invite has been decided while a join is suspended at its
\* lookup
C10_Witness ==
    \E s1 \in Slots, s2 \in Slots :
       /\ reqs[s1].op = "user_may_join_room"
       /\ reqs[s1].pc = "await"
       /\ reqs[s2].op = "user_may_invite"
       /\ Done(reqs[s2])

=============================================================================
